---- MODULE Spec2Model ----
(***************************************************************************)
(* A model of pathmap.PathMap.matches: the walk of one or more root paths  *)
(* through a directory tree, with match / ignore / prune rules, depth      *)
(* bounds, sorting, the symlink policy and the on_error hook.              *)
(*                                                                         *)
(* A path text is a sequence of one-character strings, so that the         *)
(* string operations of the code (count of os.sep, normpath, join, split,  *)
(* regex search) are computed on the text as the code computes them.       *)
(***************************************************************************)
EXTENDS Integers, Sequences, FiniteSets, TLC

(***************************************************************************)
(* Bounds of the model.                                                    *)
(***************************************************************************)
\* the largest depth bound a configuration names
MaxDepthArg == 2
\* the longest path text that is queued for descent (stops a symlink cycle)
MaxPathLen == 8
\* the number of root paths handed to one walk
MaxRoots == 2

(***************************************************************************)
(* Text helpers.                                                           *)
(***************************************************************************)
sep == "/"

\* str.count(c)
Count(s, c) == Cardinality({i \in 1..Len(s) : s[i] = c})

\* str.split(sep): the components between separators, empty ones included
RECURSIVE SplitFrom(_, _, _)
SplitFrom(s, i, cur) ==
    IF i > Len(s) THEN <<cur>>
    ELSE IF s[i] = sep THEN <<cur>> \o SplitFrom(s, i + 1, <<>>)
    ELSE SplitFrom(s, i + 1, Append(cur, s[i]))

Split(s) == SplitFrom(s, 1, <<>>)

\* sep.join(comps)
RECURSIVE JoinSep(_)
JoinSep(comps) ==
    IF comps = <<>> THEN <<>>
    ELSE IF Len(comps) = 1 THEN comps[1]
    ELSE comps[1] \o <<sep>> \o JoinSep(Tail(comps))

dot == <<".">>
dotdot == <<".", ".">>

\* the loop of posixpath.normpath over the components
RECURSIVE NormComps(_, _, _)
NormComps(comps, new, slashes) ==
    IF comps = <<>> THEN new
    ELSE LET c == Head(comps) IN
         IF c = <<>> \/ c = dot THEN NormComps(Tail(comps), new, slashes)
         ELSE IF \/ c # dotdot
                 \/ (slashes = 0 /\ new = <<>>)
                 \/ (new # <<>> /\ new[Len(new)] = dotdot)
              THEN NormComps(Tail(comps), Append(new, c), slashes)
         ELSE IF new # <<>>
              THEN NormComps(Tail(comps), SubSeq(new, 1, Len(new) - 1), slashes)
         ELSE NormComps(Tail(comps), new, slashes)

\* the number of leading separators normpath keeps: 0, 1, or 2 for exactly two
InitialSlashes(s) ==
    IF s = <<>> \/ s[1] # sep THEN 0
    ELSE IF Len(s) >= 2 /\ s[2] = sep /\ ~(Len(s) >= 3 /\ s[3] = sep) THEN 2
    ELSE 1

\* os.path.normpath
normpath(s) ==
    IF s = <<>> THEN dot
    ELSE LET n == InitialSlashes(s)
             body == JoinSep(NormComps(Split(s), <<>>, n))
             res == [i \in 1..n |-> sep] \o body
         IN  IF res = <<>> THEN dot ELSE res

\* os.path.join(a, b) for a name b that holds no separator
join(a, b) ==
    IF a = <<>> \/ a[Len(a)] = sep THEN a \o b ELSE a \o <<sep>> \o b

\* str.rfind(sep), 0 when there is none (positions from 1)
LastSep(s) ==
    LET at == {i \in 1..Len(s) : s[i] = sep}
    IN  IF at = {} THEN 0 ELSE CHOOSE i \in at : \A j \in at : j <= i

\* str.rstrip(sep)
RECURSIVE RStrip(_)
RStrip(s) ==
    IF s # <<>> /\ s[Len(s)] = sep THEN RStrip(SubSeq(s, 1, Len(s) - 1)) ELSE s

\* os.path.split: <<head, tail>>
split(s) ==
    LET i == LastSep(s)
        head == SubSeq(s, 1, i)
        tail == SubSeq(s, i + 1, Len(s))
    IN  IF head # <<>> /\ RStrip(head) # <<>> THEN <<RStrip(head), tail>>
        ELSE <<head, tail>>

(***************************************************************************)
(* The directory tree the walk runs on.  A node is the sequence of entry   *)
(* names from the filesystem root; every name is one character.  The       *)
(* working directory is the filesystem root.                               *)
(*     /        directory                                                  *)
(*     /a       directory                                                  *)
(*     /a/d     directory                                                  *)
(*     /a/d/l   symbolic link to /a (a cycle)                              *)
(*     /a/d/y   plain file                                                 *)
(*     /b       plain file                                                 *)
(*     /c       directory (empty)                                          *)
(***************************************************************************)
Dirs == {<<>>, <<"a">>, <<"c">>, <<"a", "d">>}
Files == {<<"b">>, <<"a", "d", "y">>}
Links == {<<"a", "d", "l">>}
Nodes == Dirs \cup Files \cup Links
Target(n) == <<"a">>
NoNode == <<"?">>
cwd == <<>>

\* stat(): the node a node stands for once a symbolic link is followed
Stat(n) == IF n \in Links THEN Target(n) ELSE n

\* one step of path resolution: the entry named comp in the directory at cur
StepInto(cur, comp) ==
    LET d == Stat(cur) IN
    IF cur = NoNode \/ d \notin Dirs THEN NoNode
    ELSE IF comp = <<>> \/ comp = dot THEN d
    ELSE IF comp = dotdot THEN (IF d = <<>> THEN d ELSE SubSeq(d, 1, Len(d) - 1))
    ELSE IF Len(comp) = 1 /\ Append(d, comp[1]) \in Nodes THEN Append(d, comp[1])
    ELSE NoNode

\* resolution of the components one after another (each step is taken from a
\* one-element set so that its value is computed once)
RECURSIVE Resolve(_, _)
Resolve(cur, comps) ==
    IF comps = <<>> THEN cur
    ELSE CHOOSE n \in {Resolve(next, Tail(comps)) : next \in {StepInto(cur, Head(comps))}} : TRUE

\* the node a path text names (lstat: a final symbolic link is not followed)
Lookup(path) ==
    CHOOSE n \in {IF p = <<>> THEN NoNode
                  ELSE Resolve(IF p[1] = sep THEN <<>> ELSE cwd, Split(p)) : p \in {path}} : TRUE

\* the names of the immediate children of directory node d
ChildNames(d) == {n[Len(n)] : n \in {m \in Nodes : Len(m) = Len(d) + 1 /\ SubSeq(m, 1, Len(d)) = d}}

\* a DirEntry: its name and the node it stands for
DirEntry(d, nm) == [name |-> <<nm>>, node |-> Append(d, nm)]

\* scandir.GenericDirEntry(p, name)
GenericDirEntry(p, name) == [name |-> name, node |-> Lookup(join(p, name))]

\* DirEntry.is_dir(): follows symbolic links, False when the path does not exist
is_dir(e) == Stat(e.node) \in Dirs

\* DirEntry.is_symlink()
is_symlink(e) == e.node \in Links

\* every order in which a lister may produce the set S
Orders(S) ==
    UNION {{f \in [1..Cardinality(T) -> T] : \A i, j \in 1..Cardinality(T) : f[i] = f[j] => i = j} :
              T \in {S}}

(***************************************************************************)
(* Rules and their results.                                                *)
(***************************************************************************)
NoMatch == [t |-> "NoMatch", v |-> <<>>]
None == [t |-> "None", v |-> <<>>]
True == [t |-> "True", v |-> <<>>]
False == [t |-> "False", v |-> <<>>]
List(v) == [t |-> "list", v |-> v]

\* bool(value)
Truthy(r) == r.t = "True" \/ (r.t = "list" /\ r.v # <<>>)

\* a rule given as a pattern string, and a rule that is a callable
Str(pat) == [tag |-> "str", fn |-> "", pat |-> pat]
Fn(name) == [tag |-> "callable", fn |-> name, pat |-> <<>>]

\* the argument None where a rule is expected
NoRule == [tag |-> "None", fn |-> "", pat |-> <<>>]

\* isinstance(rule, basestring)
IsString(rule) == rule.tag = "str"

\* regex.match(path): the pattern only at the start of the path
SearchAtStart(pat, path) == Len(pat) <= Len(path) /\ SubSeq(path, 1, Len(pat)) = pat

\* regex.search(path) for a pattern of literal characters
Search(pat, path) ==
    \E i \in 1..(Len(path) - Len(pat) + 1) : SubSeq(path, i, i + Len(pat) - 1) = pat

make_regex_rule(regex_str) == [tag |-> "callable", fn |-> "regex", pat |-> regex_str]

default_match_rule == Fn("default_match_rule")

\* rule(path, dir_entry)
Apply(rule, path, e) ==
    CASE rule.fn = "regex" -> IF Search(rule.pat, path) THEN List(<<rule.pat>>) ELSE NoMatch
      [] rule.fn = "default_match_rule" -> None
      [] rule.fn = "is_dir" -> IF is_dir(e) THEN True ELSE False
      [] rule.fn = "dirs_empty" -> IF is_dir(e) THEN List(<<>>) ELSE NoMatch
      [] OTHER -> NoMatch

(***************************************************************************)
(* The state: the PathMap object, the running generator and its inputs.    *)
(***************************************************************************)
VARIABLES
    args,          \* the arguments of the constructor call of the run, NoArgs when there is none
    suspended,     \* the other generator of the same object, NoFrame when there is none
    self,          \* the PathMap: match_rule, ignore_rules, prune_rules, depth, sort, on_error, follow_symlinks
    root_paths,    \* the argument of matches(): the root path texts
    unreadable,    \* the directories whose listing raises OSError
    pc,            \* where the generator stands
    root_idx,      \* the number of roots already taken from root_paths
    root_path,     \* the normalized text of the current root
    curr_dir,      \* the path text of the directory being listed
    next_dirs,     \* the pending queue of directory path texts
    curr_depth,    \* the depth computed for the children of curr_dir
    curr_entries,  \* the filtered (and sorted) children of curr_dir
    pos,           \* the position of the loop over curr_entries
    out,           \* the records yielded so far, each with the index of its root
    errors,        \* the directories whose errors were passed to on_error
    listed,        \* the path texts passed to scandir so far
    queued,        \* the path texts ever appended to next_dirs
    calls          \* the rule invocations so far: <<role, index, path>>

vars == <<args, suspended, self, root_paths, unreadable, pc, root_idx, root_path, curr_dir, next_dirs,
          curr_depth, curr_entries, pos, out, errors, listed, queued, calls>>

\* depth[1] is None
Unbounded(depth) == depth.hi = <<>>

\* a constructor that only refuses a negative minimum depth
DepthErrorOfMinimum(depth) == depth.lo < 0

\* the checks of PathMap.__init__ on depth, after a single int became a pair
DepthError(depth) ==
    \/ depth.lo < 0
    \/ (~Unbounded(depth) /\ depth.hi[1] < depth.lo)

\* an attribute that is the caller's own list
StoredGiven(given) == [items |-> given, same |-> TRUE]

\* the list __init__ keeps for a given list of rules: given[:] or [], its items
\* and whether it is the same list object as the given one
Stored(given) ==
    [items |-> IF given # <<>> THEN [i \in DOMAIN given |-> given[i]] ELSE <<>>,
     same |-> FALSE]

\* PathMap.__init__
PathMap(match_rule, ignore_rules, prune_rules, depth, sort, on_error, follow_symlinks) ==
    [match_rule |-> IF match_rule = NoRule THEN default_match_rule ELSE match_rule,
     ignore_rules |-> Stored(ignore_rules).items,
     prune_rules |-> Stored(prune_rules).items,
     depth |-> IF depth.tuple THEN [lo |-> depth.lo, hi |-> depth.hi]
               ELSE [lo |-> depth.lo, hi |-> <<depth.lo>>],
     sort |-> sort,
     on_error |-> on_error,
     follow_symlinks |-> follow_symlinks]

\* PathMap._convert_regex_rules
ConvertRule(rule) == IF IsString(rule) THEN make_regex_rule(rule.pat) ELSE rule

_convert_regex_rules(obj) ==
    [obj EXCEPT !.match_rule = ConvertRule(@),
                !.ignore_rules = [i \in DOMAIN @ |-> ConvertRule(@[i])],
                !.prune_rules = [i \in DOMAIN @ |-> ConvertRule(@[i])]]

\* the lists of the constructor's caller once the lists of obj were assigned to:
\* a list of the caller changes when it is the list object the attribute holds
CallerLists(a, obj) ==
    IF a = <<>> THEN a
    ELSE [a EXCEPT !.ignore_rules = IF Stored(@).same THEN obj.ignore_rules ELSE @,
                   !.prune_rules = IF Stored(@).same THEN obj.prune_rules ELSE @]

\* the index of the first rule of the list that returns a truthy value, 0 if none
FirstTruthy(rules, path, e) ==
    LET hit == {i \in DOMAIN rules : Truthy(Apply(rules[i], path, e))}
    IN  IF hit = {} THEN 0 ELSE CHOOSE i \in hit : \A j \in hit : i <= j

\* the rules of the list that a loop stopping at the first truthy one invokes
Invoked(role, rules, path, e) ==
    LET k == FirstTruthy(rules, path, e)
    IN  {<<role, i, path>> : i \in 1..(IF k = 0 THEN Len(rules) ELSE k)}

\* a candidate test that forgets the ignore rules
_test_target_path_unignored(path, e) == Apply(self.match_rule, path, e)

\* PathMap._test_target_path
_test_target_path(path, e) ==
    IF FirstTruthy(self.ignore_rules, path, e) # 0 THEN NoMatch
    ELSE Apply(self.match_rule, path, e)

\* the rule invocations of _test_target_path
TestCalls(path, e) ==
    Invoked("ignore", self.ignore_rules, path, e)
        \cup (IF FirstTruthy(self.ignore_rules, path, e) # 0 THEN {}
              ELSE {<<"match", 0, path>>})

\* MatchResult, with the index of the root being walked
MatchResult(path, e, match_info) ==
    [path |-> path, dir_entry |-> e, match_info |-> match_info, root |-> root_idx + 1]

\* a test that yields nothing for a path some prune rule is truthy for
YieldedUnlessPruned(path, e) ==
    LET match_info == _test_target_path(path, e)
    IN  IF match_info # NoMatch /\ FirstTruthy(self.prune_rules, path, e) = 0
        THEN <<MatchResult(path, e, match_info)>> ELSE <<>>

\* a test that yields a record only for a truthy result
YieldedIfTruthy(path, e) ==
    LET match_info == _test_target_path(path, e)
    IN  IF Truthy(match_info) THEN <<MatchResult(path, e, match_info)>> ELSE <<>>

\* the records a test of (path, e) yields: one unless the result is NoMatch
Yielded(path, e) ==
    LET match_info == _test_target_path(path, e)
    IN  IF match_info # NoMatch THEN <<MatchResult(path, e, match_info)>> ELSE <<>>

(***************************************************************************)
(* The inputs a run draws from.                                            *)
(***************************************************************************)
DepthArgs ==
    {[tuple |-> FALSE, lo |-> d, hi |-> <<>>] : d \in -1..MaxDepthArg}
        \cup {[tuple |-> TRUE, lo |-> l, hi |-> h] :
                l \in -1..MaxDepthArg, h \in {<<>>} \cup {<<k>> : k \in 0..MaxDepthArg}}

MatchRules == {NoRule, Str(<<"d">>), Fn("dirs_empty")}
IgnoreLists == {<<>>, <<Str(<<"a">>)>>, <<Fn("is_dir"), Str(<<"b">>)>>}
PruneLists == {<<>>, <<Str(<<"a">>)>>, <<Str(<<"l">>)>>}
Handlers == {"None", "handler"}

\* "/", ".", "a//d/", "b" (a plain file) and "z" (no such entry)
RootTexts == {<<"/">>, <<".">>, <<"a", "/", "/", "d", "/">>, <<"b">>, <<"z">>}
\* the root texts of a walk of several roots: ".", "a//d/" and "b"
SeveralRootTexts == {<<".">>, <<"a", "/", "/", "d", "/">>, <<"b">>}
RootLists ==
    [1..1 -> RootTexts] \cup UNION {[1..n -> SeveralRootTexts] : n \in 2..MaxRoots}
Unreadables == {{}, {<<"a">>}}

Objects ==
    {PathMap(m, i, p, d, s, h, f) :
        m \in MatchRules, i \in IgnoreLists, p \in PruneLists, d \in DepthArgs,
        s \in BOOLEAN, h \in Handlers, f \in BOOLEAN}

\* the object has the default rules: no ignore rule, no prune rule, match everything
DefaultRules(o) ==
    o.match_rule = default_match_rule /\ o.ignore_rules = <<>> /\ o.prune_rules = <<>>

\* one root with any object, or several roots with a sorting object of default rules
Inputs ==
    {io \in Objects \X RootLists :
        /\ ~DepthError(io[1].depth)
        /\ Len(io[2]) = 1 \/ (DefaultRules(io[1]) /\ io[1].sort)}

\* no constructor call in the run: the object was constructed before it
NoArgs == <<>>

\* no other generator of the object
NoFrame == <<>>

Init ==
    /\ \E io \in Inputs : self = io[1] /\ root_paths = io[2]
    /\ args = NoArgs
    /\ suspended = NoFrame
    /\ unreadable \in Unreadables
    /\ pc = "start"
    /\ root_idx = 0
    /\ root_path = <<>>
    /\ curr_dir = <<>>
    /\ next_dirs = <<>>
    /\ curr_depth = 0
    /\ curr_entries = <<>>
    /\ pos = 1
    /\ out = <<>>
    /\ errors = <<>>
    /\ listed = <<>>
    /\ queued = {}
    /\ calls = {}

(***************************************************************************)
(* matches(): the steps of the generator.                                  *)
(***************************************************************************)
\* up to the loop over the roots: the rules given as strings become callables
Begin ==
    /\ pc = "start"
    /\ self' = _convert_regex_rules(self)
    /\ args' = CallerLists(args, self')
    /\ pc' = "root"
    /\ UNCHANGED <<suspended, root_paths, unreadable, root_idx, root_path, curr_dir, next_dirs,
                   curr_depth, curr_entries, pos, out, errors, listed, queued, calls>>

\* the entry of a root path: GenericDirEntry of its split, "." for an empty head
RootEntry(rp) ==
    GenericDirEntry(IF split(rp)[1] = <<>> THEN dot ELSE split(rp)[1], split(rp)[2])

\* whether the root itself is tested: the minimum depth is 0
RootTested == self.depth.lo = 0

\* whether the walk of the root stops because the root is not a directory
RootStops(e) == RootTested /\ ~is_dir(e)

\* whether some prune rule is truthy for (path, e)
Pruned(path, e) == FirstTruthy(self.prune_rules, path, e) # 0

\* one pass of the loop over the roots, up to the walk of the root's tree
StartRoot ==
    /\ pc = "root"
    /\ root_idx < Len(root_paths)
    /\ \E rp \in {normpath(root_paths[root_idx + 1])} :
       \E root_entry \in {RootEntry(rp)} :
           /\ root_path' = rp
           /\ out' = IF RootTested THEN out \o Yielded(rp, root_entry) ELSE out
           /\ calls' = calls
                 \cup (IF RootTested THEN TestCalls(rp, root_entry) ELSE {})
                 \cup (IF RootStops(root_entry) THEN {}
                       ELSE Invoked("prune", self.prune_rules, rp, root_entry))
           /\ IF RootStops(root_entry) \/ Pruned(rp, root_entry)
              THEN /\ root_idx' = root_idx + 1
                   /\ pc' = "root"
                   /\ UNCHANGED <<curr_dir, next_dirs>>
              ELSE /\ curr_dir' = rp
                   /\ next_dirs' = <<>>
                   /\ pc' = "list"
                   /\ UNCHANGED root_idx
    /\ UNCHANGED <<args, suspended, self, root_paths, unreadable, curr_depth, curr_entries, pos,
                   errors, listed, queued>>

\* the depth computed from the separators of curr_dir and of the root
DepthOf(dir, root) == (Count(dir, sep) - Count(root, sep)) + 1

\* a depth taken from the first root of the walk instead of the current one
CurrDepthOfFirstRoot == DepthOf(curr_dir, normpath(root_paths[1]))

\* curr_depth: the depth of the children of curr_dir
CurrDepth == DepthOf(curr_dir, root_path)

\* a filter that keeps every entry, whatever its depth
KeepAlways(e, depth) == TRUE

\* the depth filter applied to each entry as scandir produces it
Keep(e, depth) ==
    IF is_dir(e)
    THEN ~(~Unbounded(self.depth) /\ depth > self.depth.hi[1])
    ELSE ~(depth < self.depth.lo \/ (~Unbounded(self.depth) /\ depth > self.depth.hi[1]))

RECURSIVE Filter(_, _)
Filter(es, depth) ==
    IF es = <<>> THEN <<>>
    ELSE (IF Keep(Head(es), depth) THEN <<Head(es)>> ELSE <<>>) \o Filter(Tail(es), depth)

\* the place of a character in the order of the characters of entry names
CharOrd(c) == CHOOSE i \in 1..7 : <<"a", "b", "c", "d", "l", "x", "y">>[i] = c

\* whether name a sorts before name b (comparison of strings, by character)
RECURSIVE NameLess(_, _)
NameLess(a, b) ==
    IF b = <<>> THEN FALSE
    ELSE IF a = <<>> THEN TRUE
    ELSE IF a[1] # b[1] THEN CharOrd(a[1]) < CharOrd(b[1])
    ELSE NameLess(Tail(a), Tail(b))

RECURSIVE Insert(_, _)
Insert(e, es) ==
    IF es = <<>> THEN <<e>>
    ELSE IF NameLess(e.name, Head(es).name) THEN <<e>> \o es
    ELSE <<Head(es)>> \o Insert(e, Tail(es))

\* list.sort(key=attrgetter('name')): a stable sort by name
RECURSIVE SortByName(_)
SortByName(es) ==
    IF es = <<>> THEN <<>>
    ELSE CHOOSE r \in {Insert(es[Len(es)], rest) :
                          rest \in {SortByName(SubSeq(es, 1, Len(es) - 1))}} : TRUE

\* a sort that puts the directories before the files, each group by name
OrderedDirsFirst(es) ==
    IF self.sort
    THEN SortByName(SelectSeq(es, is_dir)) \o SortByName(SelectSeq(es, LAMBDA e : ~is_dir(e)))
    ELSE es

\* the entries in the order the loop takes them: sorted when sort is set
Ordered(es) == IF self.sort THEN SortByName(es) ELSE es

\* the directory node scandir(path) reads, NoNode when path is no directory
ScanNode(path) == IF Stat(Lookup(path)) \in Dirs THEN Stat(Lookup(path)) ELSE NoNode

\* whether scandir(path) raises OSError
ScanFails(path) == ScanNode(path) = NoNode \/ ScanNode(path) \in unreadable

\* the entries scandir produces, in the order given
Entries(d, order) == [i \in DOMAIN order |-> DirEntry(d, order[i])]

\* a call of scandir, with the root being walked
Listing(path) == [path |-> path, root |-> root_idx + 1]

\* the listing of curr_dir completes: its entries are filtered and sorted
ListDirOk ==
    /\ pc = "list"
    /\ ~ScanFails(curr_dir)
    /\ \E d \in {ScanNode(curr_dir)} :
       \E order \in Orders(ChildNames(d)) :
       \E depth \in {CurrDepth} :
       \E kept \in {Filter(Entries(d, order), depth)} :
       \E es \in {Ordered(kept)} :
              /\ curr_depth' = depth
              /\ curr_entries' = es
              /\ pc' = IF es = <<>> THEN "pop" ELSE "entries"
    /\ pos' = 1
    /\ listed' = Append(listed, Listing(curr_dir))
    /\ UNCHANGED <<args, suspended, self, root_paths, unreadable, root_idx, root_path, curr_dir,
                   next_dirs, out, errors, queued, calls>>

\* an error path that goes through the entries produced before the error
AfterErrorProcesses ==
    IF self.on_error # "None"
    THEN (IF curr_entries' # <<>> THEN "entries" ELSE "pop")
    ELSE "raised"

\* an error path that goes on although no handler is set
AfterErrorSwallowed == "pop"

\* an error path that ends the walk of the root although a handler is set
AfterErrorNextRoot == IF self.on_error # "None" THEN "root" ELSE "raised"

\* where the generator goes after OSError: on when a handler is set, else it raises
AfterError == IF self.on_error # "None" THEN "pop" ELSE "raised"

\* the listing of curr_dir raises OSError, at once or after some entries
ListDirFail ==
    /\ pc = "list"
    /\ ScanFails(curr_dir)
    /\ \E order \in Orders(IF ScanNode(curr_dir) = NoNode THEN {}
                           ELSE ChildNames(ScanNode(curr_dir))) :
       \E k \in 0..Len(order) :
          LET depth == CurrDepth
          IN  /\ curr_depth' = depth
              /\ curr_entries' = Filter(Entries(ScanNode(curr_dir), SubSeq(order, 1, k)), depth)
    /\ pos' = 1
    /\ listed' = Append(listed, Listing(curr_dir))
    /\ errors' = IF self.on_error # "None" THEN Append(errors, curr_dir) ELSE errors
    /\ pc' = AfterError
    /\ UNCHANGED <<args, suspended, self, root_paths, unreadable, root_idx, root_path, curr_dir,
                   next_dirs, out, queued, calls>>

\* a descent that follows every symbolic link to a directory
DescendsAlways(e) == is_dir(e)

\* whether a directory entry is considered for descent: symlinks only on request
Descends(e) == is_dir(e) /\ (self.follow_symlinks \/ ~is_symlink(e))

\* a descent that forgets the prune rules
AppendedUnpruned(path, e) == Descends(e)

\* whether the entry is appended to next_dirs: considered, and no prune rule truthy
Appended(path, e) == Descends(e) /\ ~Pruned(path, e)

\* whether a directory is not tested because it is above the minimum depth
Skipped(e, depth) == is_dir(e) /\ depth < self.depth.lo

\* one pass of the loop over curr_entries
ProcessEntry ==
    /\ pc = "entries"
    /\ LET e == curr_entries[pos]
           p == join(curr_dir, e.name)
       IN  /\ Appended(p, e) => Len(p) <= MaxPathLen
           /\ next_dirs' = IF Appended(p, e) THEN Append(next_dirs, p) ELSE next_dirs
           /\ queued' = IF Appended(p, e) THEN queued \cup {p} ELSE queued
           /\ calls' = calls
                 \cup (IF Descends(e) THEN Invoked("prune", self.prune_rules, p, e) ELSE {})
                 \cup (IF Skipped(e, curr_depth) THEN {} ELSE TestCalls(p, e))
           /\ out' = IF Skipped(e, curr_depth) THEN out ELSE out \o Yielded(p, e)
    /\ pos' = pos + 1
    /\ pc' = IF pos = Len(curr_entries) THEN "pop" ELSE "entries"
    /\ UNCHANGED <<args, suspended, self, root_paths, unreadable, root_idx, root_path, curr_dir,
                   curr_depth, curr_entries, errors, listed>>

\* a pop that takes the directory appended last
PopLast ==
    /\ pc = "pop"
    /\ IF next_dirs # <<>>
       THEN /\ curr_dir' = next_dirs[Len(next_dirs)]
            /\ next_dirs' = SubSeq(next_dirs, 1, Len(next_dirs) - 1)
            /\ pc' = "list"
            /\ UNCHANGED root_idx
       ELSE /\ root_idx' = root_idx + 1
            /\ pc' = "root"
            /\ UNCHANGED <<curr_dir, next_dirs>>
    /\ UNCHANGED <<args, suspended, self, root_paths, unreadable, root_path, curr_depth, curr_entries,
                   pos, out, errors, listed, queued, calls>>

\* the end of the while loop's body: the next pending directory, or the next root
Pop ==
    /\ pc = "pop"
    /\ IF next_dirs # <<>>
       THEN /\ curr_dir' = Head(next_dirs)
            /\ next_dirs' = Tail(next_dirs)
            /\ pc' = "list"
            /\ UNCHANGED root_idx
       ELSE /\ root_idx' = root_idx + 1
            /\ pc' = "root"
            /\ UNCHANGED <<curr_dir, next_dirs>>
    /\ UNCHANGED <<args, suspended, self, root_paths, unreadable, root_path, curr_depth, curr_entries,
                   pos, out, errors, listed, queued, calls>>

\* the loop over the roots is over: the generator is exhausted
Finish ==
    /\ pc = "root"
    /\ root_idx = Len(root_paths)
    /\ pc' = "done"
    /\ UNCHANGED <<args, suspended, self, root_paths, unreadable, root_idx, root_path, curr_dir, next_dirs,
                   curr_depth, curr_entries, pos, out, errors, listed, queued, calls>>

\* the arguments a constructor call may be given
ArgRecords ==
    [match_rule : MatchRules, ignore_rules : IgnoreLists, prune_rules : PruneLists,
     depth : DepthArgs, sort : BOOLEAN, on_error : Handlers, follow_symlinks : BOOLEAN]

\* the object __init__ builds from the arguments when it does not raise
Constructed(a) ==
    PathMap(a.match_rule, a.ignore_rules, a.prune_rules, a.depth, a.sort, a.on_error,
            a.follow_symlinks)

\* an object none of whose attributes is set yet
Blank ==
    [match_rule |-> "unset", ignore_rules |-> "unset", prune_rules |-> "unset",
     depth |-> "unset", sort |-> "unset", on_error |-> "unset", follow_symlinks |-> "unset"]

\* one root with any arguments, or several roots with sorting arguments of default rules
InputsNew ==
    {io \in ArgRecords \X RootLists :
        Len(io[2]) = 1 \/ (DefaultRules(Constructed(io[1])) /\ io[1].sort)}

\* a run that starts with the constructor call
InitNew ==
    /\ \E io \in InputsNew : args = io[1] /\ root_paths = io[2]
    /\ self = Blank
    /\ suspended = NoFrame
    /\ unreadable \in Unreadables
    /\ pc = "new"
    /\ root_idx = 0
    /\ root_path = <<>>
    /\ curr_dir = <<>>
    /\ next_dirs = <<>>
    /\ curr_depth = 0
    /\ curr_entries = <<>>
    /\ pos = 1
    /\ out = <<>>
    /\ errors = <<>>
    /\ listed = <<>>
    /\ queued = {}
    /\ calls = {}

\* PathMap(...): __init__ raises ValueError or leaves the object
New ==
    /\ pc = "new"
    /\ IF DepthError(Constructed(args).depth)
       THEN pc' = "ValueError" /\ UNCHANGED self
       ELSE pc' = "start" /\ self' = Constructed(args)
    /\ UNCHANGED <<args, suspended, root_paths, unreadable, root_idx, root_path, curr_dir, next_dirs,
                   curr_depth, curr_entries, pos, out, errors, listed, queued, calls>>

Next == Begin \/ StartRoot \/ ListDirOk \/ ListDirFail \/ ProcessEntry \/ Pop \/ Finish

Spec == Init /\ [][Next]_vars

\* the walks that are consumed to their end: the generator is resumed as long
\* as it has a step to take; the match and ignore rules, which decide nothing
\* about what is listed, are the default ones, and an unreadable directory
\* and a handler are met with one root only
InitConsumed ==
    /\ Init
    /\ self.match_rule = default_match_rule
    /\ self.ignore_rules = <<>>
    /\ Len(root_paths) > 1 => (unreadable = {} /\ self.on_error = "None")

SpecConsumed == InitConsumed /\ [][Next]_vars /\ WF_vars(Next)

NextNew == New \/ Next

\* the runs that construct the object and then walk with it
SpecNew == InitNew /\ [][NextNew]_vars

\* the locals of the running generator as the frame of generator id
Frame(id) ==
    [id |-> id, root_paths |-> root_paths, pc |-> pc, root_idx |-> root_idx,
     root_path |-> root_path, curr_dir |-> curr_dir, next_dirs |-> next_dirs,
     curr_depth |-> curr_depth, curr_entries |-> curr_entries, pos |-> pos, out |-> out,
     errors |-> errors, listed |-> listed, queued |-> queued, calls |-> calls]

\* the frame of a generator that matches(roots) returned and nobody resumed yet
Created(id, roots) ==
    [id |-> id, root_paths |-> roots, pc |-> "start", root_idx |-> 0,
     root_path |-> <<>>, curr_dir |-> <<>>, next_dirs |-> <<>>,
     curr_depth |-> 0, curr_entries |-> <<>>, pos |-> 1, out |-> <<>>,
     errors |-> <<>>, listed |-> <<>>, queued |-> {}, calls |-> {}]

\* the consumer leaves the running generator where it stands and resumes the
\* other generator of the same object, whose locals come back as it left them
Resume ==
    /\ suspended # NoFrame
    /\ pc \notin {"new", "ValueError"}
    /\ suspended.pc \notin {"done", "raised"}
    /\ suspended' = Frame(3 - suspended.id)
    /\ root_paths' = suspended.root_paths
    /\ pc' = suspended.pc
    /\ root_idx' = suspended.root_idx
    /\ root_path' = suspended.root_path
    /\ curr_dir' = suspended.curr_dir
    /\ next_dirs' = suspended.next_dirs
    /\ curr_depth' = suspended.curr_depth
    /\ curr_entries' = suspended.curr_entries
    /\ pos' = suspended.pos
    /\ out' = suspended.out
    /\ errors' = suspended.errors
    /\ listed' = suspended.listed
    /\ queued' = suspended.queued
    /\ calls' = suspended.calls
    /\ UNCHANGED <<args, self, unreadable>>

\* the arguments of the object two generators are made from: rules given as
\* strings and as callables, symbolic links followed to a bounded depth only,
\* and entries left in the order of the listing with the default rules only
ArgsShared ==
    {a \in ArgRecords :
        /\ a.depth \in {[tuple |-> TRUE, lo |-> 0, hi |-> <<>>],
                         [tuple |-> TRUE, lo |-> 1, hi |-> <<2>>]}
        /\ a.follow_symlinks => a.depth.hi # <<>>
        /\ ~a.sort => (DefaultRules(Constructed(a)) /\ ~a.follow_symlinks /\ a.depth.hi # <<>>)
        /\ \/ a.ignore_rules = <<>> /\ a.prune_rules = <<>> /\ a.match_rule \in {NoRule, Str(<<"d">>)}
           \/ /\ a.match_rule = NoRule
              /\ <<a.ignore_rules, a.prune_rules>> \in
                     {<<<<Str(<<"a">>)>>, <<Str(<<"l">>)>>>>,
                      <<<<Fn("is_dir"), Str(<<"b">>)>>, <<Str(<<"a">>)>>>>}}

\* the roots of the two generators: "." for one, "a//d/" then "." for the other
RootsShared == {<< <<dot>>, <<<<"a", "/", "/", "d", "/">>, dot>> >>}

\* a run that constructs one object and makes two generators from it
InitShared ==
    /\ args \in ArgsShared
    /\ self = Blank
    /\ \E rs \in RootsShared : root_paths = rs[1] /\ suspended = Created(2, rs[2])
    /\ unreadable \in Unreadables
    /\ args.on_error = "handler" <=> unreadable # {}
    /\ pc = "new"
    /\ root_idx = 0
    /\ root_path = <<>>
    /\ curr_dir = <<>>
    /\ next_dirs = <<>>
    /\ curr_depth = 0
    /\ curr_entries = <<>>
    /\ pos = 1
    /\ out = <<>>
    /\ errors = <<>>
    /\ listed = <<>>
    /\ queued = {}
    /\ calls = {}

NextShared == New \/ Next \/ Resume

\* the runs in which the consumer goes back and forth between two generators of
\* one object, or consumes one to its end and then the other
SpecShared == InitShared /\ [][NextShared]_vars

(***************************************************************************)
(* What the claims speak of.                                               *)
(***************************************************************************)
\* the normalized text of the r-th root
NormRoot(r) == normpath(root_paths[r])

\* the paths of the records yielded for the r-th root
PathsOf(r) == {out[i].path : i \in {j \in DOMAIN out : out[j].root = r}}

\* no path is yielded twice for the r-th root
NoRepeat(r) ==
    \A i, j \in DOMAIN out :
        (out[i].root = r /\ out[j].root = r /\ out[i].path = out[j].path) => i = j

\* the entry a path text names
EntryAt(path) == [name |-> split(path)[2], node |-> Lookup(path)]

\* no call of scandir so far has failed
NoListingError == \A i \in DOMAIN listed : ~ScanFails(listed[i].path)

\* the number of names in a path text
Names(path) == Cardinality({i \in DOMAIN Split(path) : Split(path)[i] \notin {<<>>, dot}})

\* the number of directory levels of path below root
Levels(path, root) == Names(path) - Names(root)

\* the paths below directory node d (of text path, at the given depth), each with
\* its depth, where symbolic links are not entered
RECURSIVE TreeBelow(_, _, _)
TreeBelow(path, d, depth) ==
    UNION {{<<join(path, <<nm>>), depth + 1>>}
               \cup (IF Append(d, nm) \in Dirs
                     THEN TreeBelow(join(path, <<nm>>), Append(d, nm), depth + 1)
                     ELSE {}) : nm \in ChildNames(d)}

\* the tree of a root: the root at depth 0 and what lies below it
TreeOf(rp) ==
    {<<rp, 0>>} \cup (IF ScanNode(rp) # NoNode THEN TreeBelow(rp, ScanNode(rp), 0) ELSE {})

\* depth d is within the bounds of the object
InBounds(d) == self.depth.lo <= d /\ (Unbounded(self.depth) \/ d <= self.depth.hi[1])

\* C1: with default rules, follow_symlinks off and no listing error, a finished
\* walk has yielded, for every root, exactly one record for each path of the
\* root's tree whose depth (root = 0) is within the bounds, and no other record.
C1_DepthBounds ==
    (pc = "done" /\ DefaultRules(self) /\ ~self.follow_symlinks /\ NoListingError)
        => \A r \in DOMAIN root_paths :
              /\ PathsOf(r) = {x[1] : x \in {y \in TreeOf(NormRoot(r)) : InBounds(y[2])}}
              /\ NoRepeat(r)

\* C6: the depth the walker applies to the children of the directory it has
\* listed is their number of directory levels below the root.
C6_DepthIsLevels ==
    pc = "entries" => curr_depth = Levels(curr_dir, root_path) + 1

\* C7: no listing is attempted on a root that is not a directory: every path
\* passed to scandir is a directory, whatever the minimum depth.
C7_NonDirRootNotListed ==
    \A i \in DOMAIN listed : ScanNode(listed[i].path) # NoNode

\* some prune rule returns a truthy value for the path
PruneHit(path) ==
    \E i \in DOMAIN self.prune_rules :
        Truthy(Apply(self.prune_rules[i], path, EntryAt(path)))

\* some ignore rule returns a truthy value for the path
IgnoreHit(path) ==
    \E i \in DOMAIN self.ignore_rules :
        Truthy(Apply(self.ignore_rules[i], path, EntryAt(path)))

\* the directories above a path within its root: the root and every proper
\* prefix of the path that ends before a separator beyond the root's text
Above(path, rp) ==
    ({rp} \cup {SubSeq(path, 1, i - 1) :
                   i \in {j \in (Len(rp) + 1)..Len(path) : path[j] = sep}}) \ {path}

\* the path texts passed to scandir so far
ListedPaths == {listed[i].path : i \in DOMAIN listed}

\* C2: with follow_symlinks off, a directory for which some prune rule is truthy
\* is never appended to the pending queue and never listed, and no record is
\* yielded for a path below it in that root's walk, whatever the other rules are.
C2_PruneStopsDescent ==
    ~self.follow_symlinks
        => /\ \A p \in queued : ~PruneHit(p)
           /\ \A i \in DOMAIN next_dirs : ~PruneHit(next_dirs[i])
           /\ \A p \in ListedPaths : ~PruneHit(p)
           /\ \A i \in DOMAIN out :
                 \A D \in Above(out[i].path, NormRoot(out[i].root)) : ~PruneHit(D)

\* a finished walk in which a pruned directory below the root was met and yielded
\* but never listed
C2_Witness ==
    /\ pc = "done"
    /\ ~self.follow_symlinks
    /\ \E i \in DOMAIN out :
          /\ PruneHit(out[i].path)
          /\ out[i].path # NormRoot(out[i].root)
          /\ is_dir(out[i].dir_entry)
          /\ <<"prune", 1, out[i].path>> \in calls
          /\ out[i].path \notin ListedPaths

\* C3: a path for which an ignore rule is truthy is never yielded, and the rules
\* after the first truthy ignore rule, and the match rule, are not invoked on it;
\* the ignore rule does not stop descent: an ignored directory is still queued
\* when it is followed and unpruned, every queued directory has been listed when
\* the walk is over, and each child of a listed directory is yielded exactly when
\* it passes the walker's depth check, is not ignored and is matched.
C3_IgnoreOnlyHidesPath ==
    /\ \A i \in DOMAIN out : ~IgnoreHit(out[i].path)
    /\ \A c \in calls :
          /\ c[1] = "ignore" =>
                \A j \in 1..(c[2] - 1) :
                    ~Truthy(Apply(self.ignore_rules[j], c[3], EntryAt(c[3])))
          /\ c[1] = "match" => ~IgnoreHit(c[3])
    /\ \A k \in 1..(pos - 1) :
          (pc \in {"entries", "pop"} /\ k <= Len(curr_entries)) =>
              LET e == curr_entries[k]
                  p == join(curr_dir, e.name)
              IN  (/\ IgnoreHit(p)
                   /\ is_dir(e)
                   /\ self.follow_symlinks \/ ~is_symlink(e)
                   /\ ~PruneHit(p)) => p \in queued
    /\ pc = "done" =>
          /\ queued \subseteq ListedPaths
          /\ \A i \in DOMAIN listed :
                ~ScanFails(listed[i].path) =>
                    \A nm \in ChildNames(ScanNode(listed[i].path)) :
                        LET p == join(listed[i].path, <<nm>>)
                            e == DirEntry(ScanNode(listed[i].path), nm)
                        IN  (p \in PathsOf(listed[i].root))
                                <=> /\ InBounds(DepthOf(listed[i].path, NormRoot(listed[i].root)))
                                    /\ ~IgnoreHit(p)
                                    /\ Apply(self.match_rule, p, e) # NoMatch

\* a finished walk in which an ignored directory below the root was queued and
\* listed, is not among the records, and a path below it is
C3_Witness ==
    /\ pc = "done"
    /\ \E i \in DOMAIN out :
          \E D \in Above(out[i].path, NormRoot(out[i].root)) :
              /\ D # NormRoot(out[i].root)
              /\ IgnoreHit(D)
              /\ D \in queued
              /\ D \in ListedPaths
              /\ D \notin PathsOf(out[i].root)
              /\ \E k \in DOMAIN self.ignore_rules :
                    /\ <<"ignore", k, D>> \in calls
                    /\ Truthy(Apply(self.ignore_rules[k], D, EntryAt(D)))

\* the paths a walk of root rp yields below directory dir, told by recursion on
\* the tree: a directory whose listing fails counts as one without children
RECURSIVE WalkBelow(_, _)
WalkBelow(dir, rp) ==
    IF ScanFails(dir) THEN {}
    ELSE UNION {LET p == join(dir, <<nm>>)
                    e == DirEntry(ScanNode(dir), nm)
                    depth == DepthOf(dir, rp)
                    below == Unbounded(self.depth) \/ depth <= self.depth.hi[1]
                IN  (IF /\ below
                        /\ depth >= self.depth.lo
                        /\ ~IgnoreHit(p)
                        /\ Apply(self.match_rule, p, e) # NoMatch
                     THEN {p} ELSE {})
                    \cup (IF /\ below
                             /\ is_dir(e)
                             /\ self.follow_symlinks \/ ~is_symlink(e)
                             /\ ~PruneHit(p)
                          THEN WalkBelow(p, rp) ELSE {}) : nm \in ChildNames(ScanNode(dir))}

\* the paths a walk of the single root rp yields on that tree
WalkOf(rp) ==
    (IF /\ self.depth.lo = 0
        /\ ~IgnoreHit(rp)
        /\ Apply(self.match_rule, rp, RootEntry(rp)) # NoMatch
     THEN {rp} ELSE {})
        \cup (IF (self.depth.lo = 0 /\ ~is_dir(RootEntry(rp))) \/ PruneHit(rp)
              THEN {} ELSE WalkBelow(rp, rp))

\* the failing calls of scandir so far, in order
RECURSIVE FailedOf(_)
FailedOf(ls) ==
    IF ls = <<>> THEN <<>>
    ELSE (IF ScanFails(Head(ls).path) THEN <<Head(ls).path>> ELSE <<>>) \o FailedOf(Tail(ls))

\* C4: with an on_error handler, the walk never raises: the handler has been
\* invoked exactly once for each failed listing, in order, no directory is
\* listed twice in the walk of a root, and the records of a finished walk are
\* those of the walk on the tree in which the failing directories have no
\* children.
C4_HandlerSkipsDirectory ==
    self.on_error # "None"
        => /\ pc # "raised"
           /\ errors = FailedOf(listed)
           /\ \A i, j \in DOMAIN listed : listed[i] = listed[j] => i = j
           /\ pc = "done" =>
                 \A r \in DOMAIN root_paths :
                     PathsOf(r) = WalkOf(NormRoot(r)) /\ NoRepeat(r)

\* a finished walk in which the listing of a directory that has children failed
\* once, the directory itself was yielded, a pending directory of the same root
\* was listed after it, and a later root was walked and yielded a record
C4_Witness ==
    /\ pc = "done"
    /\ self.on_error # "None"
    /\ Len(errors) = 1
    /\ \E i \in DOMAIN listed :
          /\ ScanNode(listed[i].path) \in unreadable
          /\ ChildNames(ScanNode(listed[i].path)) # {}
          /\ listed[i].path \in PathsOf(listed[i].root)
          /\ \E j \in DOMAIN listed : j > i /\ listed[j].root = listed[i].root
          /\ \E k \in DOMAIN out : out[k].root > listed[i].root

\* the state part of C5
C5_State ==
    self.on_error = "None"
        => /\ errors = <<>>
           /\ \A i \in DOMAIN listed :
                 ScanFails(listed[i].path) => (i = Len(listed) /\ pc = "raised")
           /\ pc = "raised" =>
                 /\ listed # <<>>
                 /\ ScanFails(listed[Len(listed)].path)
                 /\ listed[Len(listed)].root = root_idx + 1
                 /\ root_idx < Len(root_paths)
                 /\ \A i \in DOMAIN out : out[i].root <= root_idx + 1

\* the step part of C5
C5_Step ==
    self.on_error = "None"
        => /\ pc # "raised"
           /\ pc' = "raised" => (pc = "list" /\ ScanFails(curr_dir) /\ out' = out)

ParentText(path) == SubSeq(path, 1, LastSep(path))

\* the name a path ends with
NameText(path) == SubSeq(path, LastSep(path) + 1, Len(path))

RecordsOf(r) ==
    LET recs == SelectSeq(out, LAMBDA rec : rec.root = r)
    IN  [k \in DOMAIN recs |->
            [path |-> recs[k].path, dir_entry |-> recs[k].dir_entry,
             match_info |-> recs[k].match_info]]

\* C9: the roots are walked one after another in the order given: the records
\* and the listings come in the order of the roots, the walk of a root starts
\* at the root with an empty pending queue, the paths yielded for a root whose
\* walk is over are those of a walk of that root alone, and two walks of the
\* same root in one sorted run yield the same records in the same order.
C9_RootsInOrder ==
    /\ \A i, j \in DOMAIN out : i < j => out[i].root <= out[j].root
    /\ \A i, j \in DOMAIN listed : i < j => listed[i].root <= listed[j].root
    /\ (pc = "list" /\ \A i \in DOMAIN listed : listed[i].root # root_idx + 1)
          => (curr_dir = NormRoot(root_idx + 1) /\ next_dirs = <<>>)
    /\ pc \in {"root", "done"} =>
          \A r \in 1..root_idx : PathsOf(r) = WalkOf(NormRoot(r)) /\ NoRepeat(r)
    /\ (pc = "done" /\ self.sort) =>
          \A r1, r2 \in DOMAIN root_paths :
              NormRoot(r1) = NormRoot(r2) => RecordsOf(r1) = RecordsOf(r2)

\* a finished walk of two roots of different texts, each of which was listed
\* and yielded records of more than one level
C9_Witness ==
    /\ pc = "done"
    /\ Len(root_paths) >= 2
    /\ NormRoot(1) # NormRoot(2)
    /\ Count(NormRoot(1), sep) # Count(NormRoot(2), sep)
    /\ \A r \in 1..2 :
          /\ \E i \in DOMAIN listed : listed[i].root = r /\ listed[i].path # NormRoot(r)
          /\ \E i \in DOMAIN out : out[i].root = r /\ out[i].path # NormRoot(r)

\* the entries of the current listing that the loop has been through
Processed ==
    IF pc \in {"entries", "pop"}
    THEN {k \in DOMAIN curr_entries : k < pos}
    ELSE {}

\* the normalized texts of the roots
RootTextsOfWalk == {NormRoot(r) : r \in DOMAIN root_paths}

\* C10: with follow_symlinks off, a child that is a symbolic link to a
\* directory is never queued and never listed and no prune rule is invoked on
\* it; it is yielded exactly when it passes the depth, ignore and match checks;
\* with follow_symlinks on it is queued exactly when no prune rule is truthy
\* for it, as an ordinary directory is.
C10_SymlinkedDirs ==
    /\ ~self.follow_symlinks =>
          /\ \A p \in queued : Lookup(p) \notin Links
          /\ \A p \in ListedPaths : p \in RootTextsOfWalk \/ Lookup(p) \notin Links
          /\ \A c \in calls :
                c[1] = "prune" => (c[3] \in RootTextsOfWalk \/ Lookup(c[3]) \notin Links)
    /\ \A k \in Processed :
          LET e == curr_entries[k]
              p == join(curr_dir, e.name)
          IN  is_dir(e) =>
                 /\ (p \in queued) <=>
                        ((self.follow_symlinks \/ ~is_symlink(e)) /\ ~PruneHit(p))
                 /\ (self.follow_symlinks \/ ~is_symlink(e)) =>
                        \A i \in DOMAIN self.prune_rules :
                            (\A j \in 1..(i - 1) :
                                 ~Truthy(Apply(self.prune_rules[j], p, e)))
                                => <<"prune", i, p>> \in calls
                 /\ is_symlink(e) =>
                        ((p \in PathsOf(root_idx + 1))
                            <=> /\ InBounds(curr_depth)
                                /\ ~IgnoreHit(p)
                                /\ Apply(self.match_rule, p, e) # NoMatch)

\* a finished walk with follow_symlinks off and a prune rule that is truthy for
\* a symbolic link to a directory: the link was yielded, the rule was invoked on
\* the directories but not on the link, and the link was not queued
C10_Witness ==
    /\ pc = "done"
    /\ ~self.follow_symlinks
    /\ \E c \in calls : c[1] = "prune" /\ c[3] \notin RootTextsOfWalk
    /\ \E i \in DOMAIN out :
          /\ is_symlink(out[i].dir_entry)
          /\ is_dir(out[i].dir_entry)
          /\ PruneHit(out[i].path)
          /\ out[i].path \notin queued
          /\ \A c \in calls : c[1] = "prune" => c[3] # out[i].path

\* the pair of depth bounds a depth argument stands for: (d, d) for an integer d
PairOf(depth) ==
    IF depth.tuple THEN [lo |-> depth.lo, hi |-> depth.hi]
    ELSE [lo |-> depth.lo, hi |-> <<depth.lo>>]

\* the bounds are invalid: a negative minimum, or a maximum below the minimum
InvalidBounds(b) == b.lo < 0 \/ (b.hi # <<>> /\ b.hi[1] < b.lo)

\* the state part of C11
C11_State ==
    /\ pc = "ValueError" <=> (args # NoArgs /\ pc # "new" /\ InvalidBounds(PairOf(args.depth)))
    /\ pc \notin {"new", "ValueError"} =>
          /\ self.depth = PairOf(args.depth)
          /\ self.depth.lo >= 0
          /\ self.depth.hi = <<>> \/ self.depth.hi[1] >= self.depth.lo

\* the step part of C11
C11_Step == pc' = "ValueError" => pc = "new"

\* C11: the constructor raises the configuration error exactly when the minimum
\* depth is negative or the maximum is bounded and below the minimum, an integer
\* d standing for (d, d); an object that was constructed has a minimum >= 0 and
\* a maximum that is unbounded or >= the minimum; the error is raised by the
\* constructor only, never by a step of the walk.
C11_DepthValidated == []C11_State /\ [][C11_Step]_vars

\* a walk that yielded a record with an object constructed from a single
\* integer depth
C11_Witness ==
    /\ pc = "done"
    /\ args # NoArgs
    /\ ~args.depth.tuple
    /\ self.depth = [lo |-> args.depth.lo, hi |-> <<args.depth.lo>>]
    /\ out # <<>>

\* the paths passed to on_error so far
ErrorPaths == {errors[i] : i \in DOMAIN errors}

\* C12: a root that names no entry makes the walk fail when it is reached: no
\* record is yielded for it, on_error is not invoked for it and the walk does
\* not get past it, whatever the handler and the minimum depth.
C12_UnresolvedRootFails ==
    \A r \in DOMAIN root_paths :
        Lookup(NormRoot(r)) = NoNode
            => /\ PathsOf(r) = {}
               /\ NormRoot(r) \notin ErrorPaths
               /\ root_idx < r

\* the children of the directory just listed without error, all processed
ChildrenDone ==
    IF pc = "pop" /\ listed # <<>> /\ listed[Len(listed)].path = curr_dir /\ ~ScanFails(curr_dir)
    THEN ChildNames(ScanNode(curr_dir))
    ELSE {}

\* the roots whose walk is over
RootsDone == 1..root_idx

\* C13: a prune rule does not take a directory out of the records: a child
\* directory for which a prune rule is truthy is yielded exactly when it passes
\* the walker's depth check, is not ignored and is matched, and so is a root
\* (at depth 0); with minimum depth 0 and the default match and ignore rules a
\* root for which a prune rule is truthy gives exactly one record, the root.
C13_PruneKeepsYield ==
    /\ \A c \in ChildrenDone :
          LET p == join(curr_dir, <<c>>) IN
          (is_dir(EntryAt(p)) /\ PruneHit(p))
              => ((p \in PathsOf(root_idx + 1))
                     <=> /\ InBounds(curr_depth)
                         /\ ~IgnoreHit(p)
                         /\ Apply(self.match_rule, p, EntryAt(p)) # NoMatch)
    /\ \A r \in RootsDone :
          PruneHit(NormRoot(r))
              => /\ PathsOf(r) =
                       IF /\ self.depth.lo = 0
                          /\ ~IgnoreHit(NormRoot(r))
                          /\ Apply(self.match_rule, NormRoot(r), EntryAt(NormRoot(r))) # NoMatch
                       THEN {NormRoot(r)} ELSE {}
                 /\ NoRepeat(r)
                 /\ (/\ self.depth.lo = 0
                     /\ self.ignore_rules = <<>>
                     /\ self.match_rule = default_match_rule)
                       => Len(RecordsOf(r)) = 1

\* a finished walk of a directory root with children for which a prune rule is
\* truthy, with minimum depth 0 and the default match and ignore rules: one
\* record, the root
C13_Witness ==
    /\ pc = "done"
    /\ self.depth.lo = 0
    /\ self.ignore_rules = <<>>
    /\ self.match_rule = default_match_rule
    /\ is_dir(EntryAt(NormRoot(1)))
    /\ ChildNames(ScanNode(NormRoot(1))) # {}
    /\ <<"prune", 1, NormRoot(1)>> \in calls
    /\ PruneHit(NormRoot(1))
    /\ Len(out) = 1
    /\ out[1].path = NormRoot(1)
    /\ listed = <<>>

\* the paths on which the match rule was invoked
MatchTested == {c[3] : c \in {x \in calls : x[1] = "match"}}

\* the paths yielded so far
OutPaths == {out[i].path : i \in DOMAIN out}

\* C14: a path the match rule was invoked on (no ignore rule excluded it) is
\* yielded exactly when the rule's value is not NoMatch, and every record
\* carries the value the match rule returns for its path and entry, be it None
\* or an empty sequence.
C14_OnlyNoMatchSuppresses ==
    /\ \A p \in MatchTested :
          (p \in OutPaths) <=> (Apply(self.match_rule, p, EntryAt(p)) # NoMatch)
    /\ \A i \in DOMAIN out :
          /\ out[i].match_info = Apply(self.match_rule, out[i].path, out[i].dir_entry)
          /\ out[i].match_info # NoMatch
          /\ out[i].path \in MatchTested

\* a finished walk with a match rule that returned an empty sequence for a
\* yielded directory and NoMatch for a plain file that was not yielded
C14_Witness ==
    /\ pc = "done"
    /\ \E i \in DOMAIN out : out[i].match_info = List(<<>>) /\ ~Truthy(out[i].match_info)
    /\ \E p \in MatchTested :
          Apply(self.match_rule, p, EntryAt(p)) = NoMatch /\ p \notin OutPaths

\* the pattern occurs somewhere in the text
Occurs(pat, text) == \E u, v \in 0..Len(text) :
    /\ u + Len(pat) + v = Len(text)
    /\ \A k \in 1..Len(pat) : text[u + k] = pat[k]

\* the rule was given as a pattern string (it is a search once converted)
FromString(rule) == rule.fn = "regex"

C16_DirsBeforeFiles ==
    self.sort =>
        \A i, j \in DOMAIN out :
            (/\ i < j
             /\ out[i].root = out[j].root
             /\ out[i].path # NormRoot(out[i].root)
             /\ out[j].path # NormRoot(out[j].root)
             /\ ParentText(out[i].path) = ParentText(out[j].path))
                => ~(~is_dir(out[i].dir_entry) /\ is_dir(out[j].dir_entry))

\* the directory a path text was joined from
ParentDir(p) == IF LastSep(p) <= 1 THEN SubSeq(p, 1, LastSep(p)) ELSE SubSeq(p, 1, LastSep(p) - 1)

\* the directories of the r-th root in the order they are listed: those listed
\* so far, then the one about to be listed, then the pending queue
ListingOrder(r) ==
    LET ls == SelectSeq(listed, LAMBDA l : l.root = r)
        done == [k \in DOMAIN ls |-> ls[k].path]
    IN  IF r = root_idx + 1
        THEN done \o (IF pc = "list" THEN <<curr_dir>> ELSE <<>>) \o next_dirs
        ELSE done

\* the place of x in the sequence f, 0 when it is not there
PlaceIn(f, x) ==
    IF \E k \in DOMAIN f : f[k] = x THEN CHOOSE k \in DOMAIN f : f[k] = x ELSE 0

\* C17: within a root the pending directories are listed first in, first out:
\* a directory is listed after its parent, directories come in the order in
\* which their parents were listed, the subdirectories of one directory in the
\* order in which the loop met them; so the records of a root come in
\* non-decreasing depth (the root first) and the records of the children of
\* one directory are contiguous.
C17_FifoLevelOrder ==
    /\ \A r \in DOMAIN root_paths :
       \A f \in {ListingOrder(r)} :
       \A parent \in {[j \in DOMAIN f |-> PlaceIn(f, ParentDir(f[j]))]} :
          /\ \A i \in DOMAIN f : \A j \in DOMAIN f : (i # j) => f[i] # f[j]
          /\ f # <<>> => f[1] = NormRoot(r)
          /\ \A j \in 2..Len(f) :
                /\ parent[j] \in 1..(j - 1)
                /\ \A i \in 2..(j - 1) :
                      /\ parent[i] <= parent[j]
                      /\ (self.sort /\ parent[i] = parent[j])
                            => NameLess(NameText(f[i]), NameText(f[j]))
    /\ \A k1, k2 \in Processed :
          LET p1 == join(curr_dir, curr_entries[k1].name)
              p2 == join(curr_dir, curr_entries[k2].name)
          IN  (k1 < k2 /\ PlaceIn(next_dirs, p1) # 0 /\ PlaceIn(next_dirs, p2) # 0)
                  => PlaceIn(next_dirs, p1) < PlaceIn(next_dirs, p2)
    /\ \A level \in {[i \in DOMAIN out |-> Levels(out[i].path, NormRoot(out[i].root))]} :
       \A above \in {[i \in DOMAIN out |-> ParentText(out[i].path)]} :
       \A i, j \in DOMAIN out :
          (i < j /\ out[i].root = out[j].root)
              => /\ level[i] <= level[j]
                 /\ (level[i] # 0 /\ above[i] = above[j])
                       => \A k \in i..j : above[k] = above[i]

\* a finished sorted walk that listed two subdirectories of the root in the
\* order it met them, before a directory two levels down, and yielded records
\* of three levels below the root
C17_Witness ==
    /\ pc = "done"
    /\ self.sort
    /\ Len(listed) >= 4
    /\ listed[1].root = listed[4].root
    /\ ParentDir(listed[2].path) = listed[1].path
    /\ ParentDir(listed[3].path) = listed[1].path
    /\ ParentDir(listed[4].path) = listed[2].path
    /\ \E i \in DOMAIN out : Levels(out[i].path, NormRoot(out[i].root)) = 3

\* the state part of C18
C18_State ==
    /\ \A i \in DOMAIN listed :
          (ScanFails(listed[i].path) /\ ScanNode(listed[i].path) # NoNode)
              => \A c \in ChildNames(ScanNode(listed[i].path)) :
                    /\ join(listed[i].path, <<c>>) \notin PathsOf(listed[i].root)
                    /\ join(listed[i].path, <<c>>) \notin queued
    /\ pc = "entries" =>
          /\ listed # <<>>
          /\ listed[Len(listed)].path = curr_dir
          /\ ~ScanFails(curr_dir)

\* the step part of C18
C18_Step == (out' # out \/ Len(next_dirs') > Len(next_dirs))
                => (listed' = listed /\ pc \in {"root", "entries"})

\* C18: the children of a directory are processed only once its listing has
\* completed without error: no child of a directory whose listing failed is
\* yielded or appended to the pending queue, even when the lister produced
\* children before it failed; the loop over the entries runs on the directory
\* listed last, whose listing did not fail, and no step that yields a record
\* or appends to the queue lists a directory.
C18_ChildrenAfterListing == []C18_State /\ [][C18_Step]_vars

\* a walk with a handler after the listing of a directory failed when the
\* lister had already produced a subdirectory
C18_Witness ==
    /\ pc = "pop"
    /\ self.on_error # "None"
    /\ listed # <<>>
    /\ listed[Len(listed)].path = curr_dir
    /\ ScanFails(curr_dir)
    /\ errors # <<>>
    /\ \E k \in DOMAIN curr_entries : is_dir(curr_entries[k])

\* C19: with a maximum depth M no directory more than M levels below its root
\* is listed; the directories that were appended to the queue are listed by the
\* end of the walk, those at depth M too; and every failed listing is raised
\* or passed to on_error.
C19_ListedWithinMaxDepth ==
    ~Unbounded(self.depth) =>
        /\ \A i \in DOMAIN listed :
              Levels(listed[i].path, NormRoot(listed[i].root)) <= self.depth.hi[1]
        /\ pc = "done" => \A p \in queued : p \in ListedPaths
        /\ \A i \in DOMAIN listed :
              ScanFails(listed[i].path) =>
                  (listed[i].path \in ErrorPaths \/ (pc = "raised" /\ i = Len(listed)))

\* the walk stands before an entry whose path is longer than the paths followed
\* here: it is a walk that goes on
GoesOn ==
    /\ pc = "entries"
    /\ Appended(join(curr_dir, curr_entries[pos].name), curr_entries[pos])
    /\ Len(join(curr_dir, curr_entries[pos].name)) > MaxPathLen

\* the walk is over: the generator is exhausted or has raised
Ended == pc \in {"done", "raised"}

\* C20: a walk that is consumed to its end terminates when follow_symlinks is
\* off and when the maximum depth is bounded, symbolic links forming a cycle
\* or not; only a walk with follow_symlinks on and no maximum depth goes on
\* without end.
C20_Terminates ==
    /\ [](GoesOn => (self.follow_symlinks /\ Unbounded(self.depth)))
    /\ (~self.follow_symlinks \/ ~Unbounded(self.depth)) ~> Ended

\* a finished walk with follow_symlinks on and a maximum depth that went round
\* the cycle of symbolic links: it listed one directory twice, once through the
\* link
C20_Witness ==
    /\ pc = "done"
    /\ self.follow_symlinks
    /\ ~Unbounded(self.depth)
    /\ \E i, j \in DOMAIN listed :
          /\ i < j
          /\ listed[i].root = listed[j].root
          /\ ScanNode(listed[i].path) = ScanNode(listed[j].path)
          /\ \E k \in DOMAIN listed : Lookup(listed[k].path) \in Links

\* the two generators of the object: the running one and the suspended one
Walks == IF suspended = NoFrame THEN {} ELSE {Frame(3 - suspended.id), suspended}

\* the predicate a rule stands for: a search of the pattern for a pattern string
Predicate(rule) ==
    IF rule.tag = "str" THEN [tag |-> "callable", fn |-> "regex", pat |-> rule.pat] ELSE rule

\* the rules of the object once normalized, told from the constructor's arguments
RulesOf(a) ==
    [match_rule |-> IF a.match_rule.tag = "None" THEN Fn("default_match_rule")
                    ELSE Predicate(a.match_rule),
     ignore_rules |-> [i \in DOMAIN a.ignore_rules |-> Predicate(a.ignore_rules[i])],
     prune_rules |-> [i \in DOMAIN a.prune_rules |-> Predicate(a.prune_rules[i])]]

\* some rule of the list is truthy for (p, e)
AnyTruthy(rules, p, e) == \E i \in DOMAIN rules : Truthy(Apply(rules[i], p, e))

\* the arguments with the rules normalized
Normalized(a) ==
    [a EXCEPT !.match_rule = RulesOf(a).match_rule,
              !.ignore_rules = RulesOf(a).ignore_rules,
              !.prune_rules = RulesOf(a).prune_rules]

\* what a lone walk with the normalized arguments n emits for the candidate
\* (p, e) of root r: nothing, or one record
AloneTest(n, p, e, r) ==
    IF AnyTruthy(n.ignore_rules, p, e) THEN <<>>
    ELSE CHOOSE x \in {IF info = NoMatch THEN <<>>
                       ELSE <<[path |-> p, match_info |-> info, root |-> r]>> :
                           info \in {Apply(n.match_rule, p, e)}} : TRUE

\* the names of a set in increasing order
Increasing(S) ==
    CHOOSE f \in Orders(S) : \A i, j \in DOMAIN f : i < j => NameLess(<<f[i]>>, <<f[j]>>)

\* the children a lone walk takes from directory dir of root text rp, in order:
\* none when the listing fails, those within the depth bounds otherwise
AloneChildren(n, dir, rp) ==
    IF ScanFails(dir) THEN <<>>
    ELSE CHOOSE x \in {SelectSeq([i \in DOMAIN names |-> DirEntry(d, names[i])],
                                 LAMBDA e : /\ n.depth.hi # <<>> => depth <= n.depth.hi[1]
                                            /\ is_dir(e) \/ depth >= n.depth.lo) :
                           d \in {ScanNode(dir)}, depth \in {DepthOf(dir, rp)},
                           names \in {Increasing(ChildNames(ScanNode(dir)))}} : TRUE

\* the records of the children es of dir at the given depth
RECURSIVE AloneRecords(_, _, _, _, _)
AloneRecords(n, es, dir, depth, r) ==
    IF es = <<>> THEN <<>>
    ELSE (IF is_dir(Head(es)) /\ depth < n.depth.lo THEN <<>>
          ELSE AloneTest(n, join(dir, Head(es).name), Head(es), r))
             \o AloneRecords(n, Tail(es), dir, depth, r)

\* the children es of dir that are queued for listing
RECURSIVE AloneQueued(_, _, _)
AloneQueued(n, es, dir) ==
    IF es = <<>> THEN <<>>
    ELSE (IF /\ is_dir(Head(es))
             /\ n.follow_symlinks \/ ~is_symlink(Head(es))
             /\ ~AnyTruthy(n.prune_rules, join(dir, Head(es).name), Head(es))
          THEN <<join(dir, Head(es).name)>> ELSE <<>>)
             \o AloneQueued(n, Tail(es), dir)

\* the records a lone walk emits from the pending directories on, first in first out
RECURSIVE AloneFrom(_, _, _, _)
AloneFrom(n, pending, rp, r) ==
    IF pending = <<>> THEN <<>>
    ELSE CHOOSE x \in {AloneRecords(n, es, Head(pending), DepthOf(Head(pending), rp), r)
                           \o AloneFrom(n, Tail(pending) \o AloneQueued(n, es, Head(pending)),
                                        rp, r) :
                           es \in {AloneChildren(n, Head(pending), rp)}} : TRUE

\* the records a lone walk emits for the r-th root of roots
AloneRoot(n, roots, r) ==
    CHOOSE x \in {(IF n.depth.lo = 0 THEN AloneTest(n, rp[1], rp[2], r) ELSE <<>>)
                      \o (IF \/ n.depth.lo = 0 /\ ~is_dir(rp[2])
                             \/ AnyTruthy(n.prune_rules, rp[1], rp[2])
                          THEN <<>> ELSE AloneFrom(n, <<rp[1]>>, rp[1], r)) :
                      rp \in {<<t, RootEntry(t)>> : t \in {normpath(roots[r])}}} : TRUE

\* the sequence a walk of roots emits alone on the tree, with the entries of a
\* directory taken by name, when a failed listing does not end it
RECURSIVE Alone(_, _, _)
Alone(n, roots, r) ==
    IF r > Len(roots) THEN <<>> ELSE AloneRoot(n, roots, r) \o Alone(n, roots, r + 1)

\* what a generator has emitted so far
Emitted(w) ==
    [i \in DOMAIN w.out |->
        [path |-> w.out[i].path, match_info |-> w.out[i].match_info, root |-> w.out[i].root]]

\* the elements of a sequence
Range(f) == {f[i] : i \in DOMAIN f}

\* generator w of the object of arguments a has emitted what it emits alone
SameAsAlone(a, w) ==
    \A alone \in {Alone(n, w.root_paths, 1) : n \in {Normalized(a)}} :
    \A emitted \in {Emitted(w)} :
        /\ Len(emitted) <= Len(alone)
        /\ a.sort => emitted = SubSeq(alone, 1, Len(emitted))
        /\ Range(emitted) \subseteq Range(alone)
        /\ \A i, j \in DOMAIN emitted : emitted[i] = emitted[j] => i = j
        /\ w.pc = "done" => Len(emitted) = Len(alone)

\* the state part of C21
C21_State ==
    /\ \A w \in Walks :
          w.pc \notin {"new", "ValueError", "start"}
              => /\ self.match_rule = RulesOf(args).match_rule
                 /\ self.ignore_rules = RulesOf(args).ignore_rules
                 /\ self.prune_rules = RulesOf(args).prune_rules
    /\ \A w \in Walks : SameAsAlone(args, w)

\* the step part of C21
C21_Step ==
    /\ args' = args
    /\ (suspended # NoFrame /\ suspended.pc # "start" /\ pc = "start") => self' = self
    /\ pc # "new" => (self' # self => (pc = "start" /\ suspended' = suspended))
    /\ suspended' # suspended =>
          /\ suspended' = Frame(3 - suspended.id)
          /\ suspended = [id |-> suspended.id, root_paths |-> root_paths', pc |-> pc',
                          root_idx |-> root_idx', root_path |-> root_path',
                          curr_dir |-> curr_dir', next_dirs |-> next_dirs',
                          curr_depth |-> curr_depth', curr_entries |-> curr_entries',
                          pos |-> pos', out |-> out', errors |-> errors',
                          listed |-> listed', queued |-> queued', calls |-> calls']

\* C21: two walks started from one PathMap do not disturb each other, consumed
\* one after the other or with their steps interleaved: each has emitted a
\* prefix of the sequence it emits alone on the tree (the same records when the
\* order of a listing is left open) and, once exhausted, all of it; a step of
\* one walk leaves the pending queue, the current directory and the other
\* locals of the other walk as they were; once a walk has begun, the rules of
\* the object are the predicates of the rules given and a later normalization
\* changes nothing; and the rule lists of the caller are never modified.
C21_WalksIndependent == []C21_State /\ [][C21_Step]_vars

\* both walks are under way, each has emitted records and has directories
\* pending, the queues and current directories differ, and the object was
\* given pattern strings that are predicates now while the caller's are strings
C21_Witness ==
    /\ suspended # NoFrame
    /\ pc = "entries" /\ suspended.pc \in {"entries", "list", "pop"}
    /\ out # <<>> /\ suspended.out # <<>>
    /\ next_dirs # <<>> /\ suspended.next_dirs # <<>>
    /\ next_dirs # suspended.next_dirs /\ curr_dir # suspended.curr_dir
    /\ \E i \in DOMAIN args.ignore_rules :
          args.ignore_rules[i].tag = "str" /\ self.ignore_rules[i].fn = "regex"
    /\ \E i \in DOMAIN args.prune_rules :
          args.prune_rules[i].tag = "str" /\ self.prune_rules[i].fn = "regex"

====
